---- MODULE Spec2Model ----
(***************************************************************************)
(* A model of src/app.py: the webhook pipeline of the listing enricher     *)
(* (dedup -> fetch -> challenge -> extract -> filter -> notify), its       *)
(* in-memory dedup store, the page renderer and the pure helpers.          *)
(*                                                                         *)
(* Representation.  A text is a sequence of tokens, each token a string:   *)
(* a digit or a punctuation mark is one token of one character, a label    *)
(* ("Plot area") or a word is one token of several characters.  An         *)
(* Optional[int] is a sequence: <<>> is None and <<n>> is the integer n.   *)
(* A message is the sequence of its lines ("\n".join of the lines).        *)
(***************************************************************************)
EXTENDS Integers, Sequences, FiniteSets, TLC

\* ------------------------------------------------------------------ bounds
\* The number of webhook requests of a run.
NumReqs == 2
\* The last value of the clock.
MaxTime == 3
\* The largest land area of the range of extract_fields' inputs.
MaxLand == 1100

\* ------------------------------------------------------- optional integers
None == <<>>
Some(n) == <<n>>
Val(o) == o[1]

\* ------------------------------------------------------------- characters
\* U+00A0, the non-breaking space that clean_int replaces by a space.
NBSP == " "
Digits == <<"0", "1", "2", "3", "4", "5", "6", "7", "8", "9">>
IsDigit(c) == \E i \in 1..10 : Digits[i] = c
DigitVal(c) == (CHOOSE i \in 1..10 : Digits[i] = c) - 1
\* \s of the regular expressions (str patterns: Unicode white space).
IsSpace(c) == c \in {" ", NBSP, "\n", "\t"}
\* [.,\s]: what may separate two groups of three digits.
IsGroupSep(c) == c \in {".", ","} \/ IsSpace(c)
\* The punctuation tokens of the model's texts; every other token that is
\* not white space is made of word characters (\w): digits, letters, "²".
IsPunct(c) == c \in {":", ".", ",", "€", "-", "/", "<", ">"}
IsWord(c) == ~IsSpace(c) /\ ~IsPunct(c)

\* \b before position i of text t: a word token with no word token before it.
WordStartAt(t, i) == IsWord(t[i]) /\ (i = 1 \/ ~IsWord(t[i - 1]))
\* \b after position i of text t: a word token with no word token after it.
WordEndAt(t, i) == IsWord(t[i]) /\ (i = Len(t) \/ ~IsWord(t[i + 1]))

RECURSIVE CharLen(_)
\* len() of a text: the characters of its tokens.
CharLen(t) == IF t = <<>> THEN 0 ELSE Len(Head(t)) + CharLen(Tail(t))

\* --------------------------------------------------------------- clean_int
\* s.replace("\xa0", " ")
ReplaceNbsp(s) == [i \in 1..Len(s) |-> IF s[i] = NBSP THEN " " ELSE s[i]]

RECURSIVE Strip(_)
\* s.strip()
Strip(s) ==
    IF s = <<>> THEN s
    ELSE IF IsSpace(Head(s)) THEN Strip(Tail(s))
    ELSE IF IsSpace(s[Len(s)]) THEN Strip(SubSeq(s, 1, Len(s) - 1))
    ELSE s

\* re.sub(r"[^\d]", "", s)
OnlyDigits(s) == SelectSeq(s, IsDigit)

RECURSIVE ParseInt(_)
\* int(s) of a string of digits
ParseInt(s) ==
    IF s = <<>> THEN 0
    ELSE 10 * ParseInt(SubSeq(s, 1, Len(s) - 1)) + DigitVal(s[Len(s)])

clean_int(s) ==
    IF s = <<>> THEN None
    ELSE LET d == OnlyDigits(Strip(ReplaceNbsp(s)))
         IN  IF d # <<>> THEN Some(ParseInt(d)) ELSE None

\* ------------------------------------------------- the regular expressions
\* (?i): the lower case of a token (the tokens of the model's texts).
Lower(c) ==
    CASE c = "Plot area" -> "plot area"
      [] c = "PLOT AREA" -> "plot area"
      [] c = "Land area" -> "land area"
      [] c = "Lot size" -> "lot size"
      [] c = "Εμβαδόν οικοπέδου" -> "εμβαδόν οικοπέδου"
      [] c = "Εμβαδόν" -> "εμβαδόν"
      [] c = "EUR" -> "eur"
      [] c = "M²" -> "m²"
      [] OTHER -> c

\* [0-9]{1,3}: the end of the longest run of at most three digits from j.
DigitsEnd(t, j) ==
    IF j + 1 <= Len(t) /\ IsDigit(t[j + 1])
    THEN IF j + 2 <= Len(t) /\ IsDigit(t[j + 2]) THEN j + 2 ELSE j + 1
    ELSE j

RECURSIVE GroupsEnd(_, _)
\* (?:[.,\s][0-9]{3})*: the end of the groups that follow position e.
GroupsEnd(t, e) ==
    IF /\ e + 4 <= Len(t)
       /\ IsGroupSep(t[e + 1])
       /\ IsDigit(t[e + 2]) /\ IsDigit(t[e + 3]) /\ IsDigit(t[e + 4])
    THEN GroupsEnd(t, e + 4)
    ELSE e

\* ([0-9]{1,3}(?:[.,\s][0-9]{3})*) from the digit at j: the last position
\* of the greedy match.  A shorter match is followed by a digit, or by a
\* separator and a digit, so nothing that follows the number in the
\* patterns of extract_fields matches after it: only the greedy one counts.
NumberEnd(t, j) == GroupsEnd(t, DigitsEnd(t, j))

\* The first position after i that holds a digit, 0 when there is none.
FirstDigitAfter(t, i) ==
    LET js == {j \in (i + 1)..Len(t) : IsDigit(t[j])}
    IN  IF js = {} THEN 0 ELSE CHOOSE j \in js : \A k \in js : j <= k

RECURSIVE SkipSpaces(_, _)
\* \s*: the first position from j that is not white space.
SkipSpaces(t, j) ==
    IF j <= Len(t) /\ IsSpace(t[j]) THEN SkipSpaces(t, j + 1) ELSE j

Min(S) == CHOOSE x \in S : \A y \in S : x <= y

\* The land rules of extract_fields, in their order: the labels (lower
\* case), whether \b surrounds the label, and the bound of [^0-9]{0,n}.
land_patterns ==
    << [labels |-> {"plot area", "land area", "plotarea", "landarea"},
        wb |-> TRUE, gap |-> 80],
       [labels |-> {"lot size", "lotsize"}, wb |-> TRUE, gap |-> 80],
       [labels |-> {"εμβαδόν οικοπέδου", "εμβαδόν", "οικόπεδο", "οικοπέδου"},
        wb |-> FALSE, gap |-> 120] >>

\* A land rule matches with its label at position i: the label, then at most
\* gap characters none of which is a digit, then a number.
LandMatchAt(t, i, pat) ==
    /\ Lower(t[i]) \in pat.labels
    /\ pat.wb => (WordStartAt(t, i) /\ WordEndAt(t, i))
    /\ LET j == FirstDigitAfter(t, i)
       IN  j # 0 /\ CharLen(SubSeq(t, i + 1, j - 1)) <= pat.gap

\* re.search(pat, text) of a land rule: the number (m.groups()[-1]) of the
\* leftmost match, <<>> when the rule does not match.
LandSearch(t, pat) ==
    LET is == {i \in 1..Len(t) : LandMatchAt(t, i, pat)}
    IN  IF is = {} THEN <<>>
        ELSE LET j == FirstDigitAfter(t, Min(is))
             IN  SubSeq(t, j, NumberEnd(t, j))

\* The truth value of an Optional[int]: None and 0 are false.
Truthy(o) == o # None /\ Val(o) # 0

RECURSIVE LandLoop(_, _, _)
\* The loop over land_patterns from rule k on, land_m2 being land so far.
LandLoop(t, k, land) ==
    IF k > Len(land_patterns) THEN land
    ELSE LET m == LandSearch(t, land_patterns[k])
         IN  IF m # <<>>
             THEN LET v == clean_int(m)
                  IN  IF Truthy(v) THEN v ELSE LandLoop(t, k + 1, v)
             ELSE LandLoop(t, k + 1, land)

\* (€|eur)\s*NUMBER matches with the currency at position i.
PriceMatchAt(t, i) ==
    /\ Lower(t[i]) \in {"€", "eur"}
    /\ LET j == SkipSpaces(t, i + 1) IN j <= Len(t) /\ IsDigit(t[j])

PriceSearch(t) ==
    LET is == {i \in 1..Len(t) : PriceMatchAt(t, i)}
    IN  IF is = {} THEN <<>>
        ELSE LET j == SkipSpaces(t, Min(is) + 1)
             IN  SubSeq(t, j, NumberEnd(t, j))

\* \bNUMBER\s*m²\b matches with the number starting at position j.
AreaMatchAt(t, j) ==
    /\ IsDigit(t[j])
    /\ WordStartAt(t, j)
    /\ LET u == SkipSpaces(t, NumberEnd(t, j) + 1)
       IN  u <= Len(t) /\ Lower(t[u]) = "m²" /\ WordEndAt(t, u)

AreaSearch(t) ==
    LET js == {j \in 1..Len(t) : AreaMatchAt(t, j)}
    IN  IF js = {} THEN <<>>
        ELSE SubSeq(t, Min(js), NumberEnd(t, Min(js)))

extract_fields(text) ==
    [land_m2 |-> LandLoop(text, 1, None),
     price_eur |-> LET m == PriceSearch(text)
                   IN  IF m # <<>> THEN clean_int(m) ELSE None,
     area_m2 |-> LET m == AreaSearch(text)
                 IN  IF m # <<>> THEN clean_int(m) ELSE None]

\* ---------------------------------------------------- looks_like_challenge
\* A markup is the sequence of its characters.  None is MissingMarkup, which
\* no markup equals: every element of a markup is a single character.
MissingMarkup == <<"None">>

UpperCase ==
    <<"A", "B", "C", "D", "E", "F", "G", "H", "I", "J", "K", "L", "M",
      "N", "O", "P", "Q", "R", "S", "T", "U", "V", "W", "X", "Y", "Z">>
LowerCase ==
    <<"a", "b", "c", "d", "e", "f", "g", "h", "i", "j", "k", "l", "m",
      "n", "o", "p", "q", "r", "s", "t", "u", "v", "w", "x", "y", "z">>

\* str.lower() on the characters of the model's markups (ASCII).
LowerChar(c) ==
    IF \E i \in 1..26 : UpperCase[i] = c
    THEN LowerCase[CHOOSE i \in 1..26 : UpperCase[i] = c]
    ELSE c
LowerStr(h) == [i \in 1..Len(h) |-> LowerChar(h[i])]

\* s in h
Contains(h, s) ==
    \E i \in 1..(Len(h) - Len(s) + 1) : SubSeq(h, i, i + Len(s) - 1) = s

\* The markers, in the order of the list.
ChallengeMarkers ==
    <<
      <<"c", "a", "p", "t", "c", "h", "a">>,
      <<"c", "f", "-", "c", "h", "a", "l", "l", "e", "n", "g", "e">>,
      <<"c", "l", "o", "u", "d", "f", "l", "a", "r", "e">>,
      <<"c", "h", "e", "c", "k", "i", "n", "g", " ", "y", "o", "u", "r",
        " ", "b", "r", "o", "w", "s", "e", "r">>,
      <<"/", "c", "d", "n", "-", "c", "g", "i", "/">>,
      <<"t", "u", "r", "n", "s", "t", "i", "l", "e">>
    >>

\* looks_like_challenge comparing the markup as it is: .lower() forgotten.
looks_like_challenge_cased(html) ==
    LET h == IF html = MissingMarkup \/ html = <<>> THEN <<>> ELSE html
    IN  \E k \in 1..Len(ChallengeMarkers) : Contains(h, ChallengeMarkers[k])

looks_like_challenge(html) ==
    LET h == LowerStr(IF html = MissingMarkup \/ html = <<>> THEN <<>> ELSE html)
    IN  \E k \in 1..Len(ChallengeMarkers) : Contains(h, ChallengeMarkers[k])

\* ---------------------------------------------------------- format_message
\* format_message without its last line: parts.append(url) forgotten.
format_message_no_url(url, fields) ==
    LET land == fields.land_m2
        price == fields.price_eur
        area == fields.area_m2
        p0 == <<"Nouvelle annonce qualifiee">>
        p1 == IF land # None
              THEN Append(p0, "Terrain: " \o ToString(Val(land)) \o " m²")
              ELSE p0
        p2 == IF price # None
              THEN Append(p1, "Prix: " \o ToString(Val(price)) \o " EUR")
              ELSE p1
    IN  IF area # None
        THEN Append(p2, "Surface: " \o ToString(Val(area)) \o " m²")
        ELSE p2

\* format_message testing the truth of the fields ("if land:") instead of
\* "is not None": a field of value 0 gets no line.
format_message_truthy(url, fields) ==
    LET land == fields.land_m2
        price == fields.price_eur
        area == fields.area_m2
        p0 == <<"Nouvelle annonce qualifiee">>
        p1 == IF land # None /\ Val(land) # 0
              THEN Append(p0, "Terrain: " \o ToString(Val(land)) \o " m²")
              ELSE p0
        p2 == IF price # None /\ Val(price) # 0
              THEN Append(p1, "Prix: " \o ToString(Val(price)) \o " EUR")
              ELSE p1
        p3 == IF area # None /\ Val(area) # 0
              THEN Append(p2, "Surface: " \o ToString(Val(area)) \o " m²")
              ELSE p2
    IN  Append(p3, url)

format_message(url, fields) ==
    LET land == fields.land_m2
        price == fields.price_eur
        area == fields.area_m2
        p0 == <<"Nouvelle annonce qualifiee">>
        p1 == IF land # None
              THEN Append(p0, "Terrain: " \o ToString(Val(land)) \o " m²")
              ELSE p0
        p2 == IF price # None
              THEN Append(p1, "Prix: " \o ToString(Val(price)) \o " EUR")
              ELSE p1
        p3 == IF area # None
              THEN Append(p2, "Surface: " \o ToString(Val(area)) \o " m²")
              ELSE p2
    IN  Append(p3, url)

\* ------------------------------------------------------------ the pipeline
Requests == 1..NumReqs

\* The URLs of the webhook payloads (str(payload.url)).
URLs == {"https://a.example/1", "https://b.example/2"}

\* DEDUP_TTL_SECONDS (86400 unless the environment sets it), in clock ticks.
DEDUP_TTL_SECONDS == 2

\* MAX_TEXT_CHARS (250000 unless the environment sets it).
MAX_TEXT_CHARS == 40

\* The values of MIN_LAND_M2 the runs are configured with.
MinLandValues == {0, 300}
\* The values of TELEGRAM_BOT_TOKEN and of TELEGRAM_CHAT_ID.
TokenValues == {"", "123:abc"}
ChatIdValues == {"", "-1001234567890"}

RECURSIVE Prefix(_, _)
\* text[:n], token by token: the tokens that fit in n characters (the
\* model's texts are cut between two tokens).
Prefix(t, n) ==
    IF t = <<>> \/ Len(Head(t)) > n THEN <<>>
    ELSE <<Head(t)>> \o Prefix(Tail(t), n - Len(Head(t)))

\* if len(text) > MAX_TEXT_CHARS: text = text[:MAX_TEXT_CHARS]
Clamp(t) == IF CharLen(t) > MAX_TEXT_CHARS THEN Prefix(t, MAX_TEXT_CHARS) ELSE t

\* What the browser may render: the markup and the visible text of a page.
CleanMarkup ==
    <<"<", "h", "t", "m", "l", ">", "P", "l", "o", "t", " ", "a", "r", "e",
      "a", ":", " ", "5", "0", "0", " ", "m", "2", "<", "/", "h", "t", "m",
      "l", ">">>
ChallengeMarkup ==
    <<"<", "h", "t", "m", "l", ">", "C", "h", "e", "c", "k", "i", "n", "g",
      " ", "y", "o", "u", "r", " ", "b", "r", "o", "w", "s", "e", "r", "<",
      "/", "h", "t", "m", "l", ">">>
Markups == {CleanMarkup, ChallengeMarkup}
\* A visible text longer than MAX_TEXT_CHARS.
LongText ==
    <<"xxxxxxxxxxxxxxxxxxxxxxxxxxxxxx", " ", "Lot size", ":", " ", "7", "7", "7">>
NoNumbers == <<"no numbers here">>
PageTexts ==
    { <<"Plot area", ":", " ", "5", "0", "0", " ", "m²">>,
      <<"Plot area", ":", " ", "2", "5", "0">>,
      <<"Εμβαδόν οικοπέδου", ":", " ", "3", "0", "0">>,
      <<"Lot size", " ", "0", " ", "€", " ", "3", "5", "0", ",", "0", "0", "0">>,
      LongText }
\* What fetch_page_text may return: (html, text), the text clamped.
Pages ==
    {[html |-> CleanMarkup, text |-> Clamp(t)] : t \in PageTexts}
        \cup {[html |-> ChallengeMarkup, text |-> NoNumbers]}

\* looks_like_challenge and extract_fields on the pages of the model.
ChallengeOf == [h \in {p.html : p \in Pages} |-> looks_like_challenge(h)]
FieldsOf == [t \in {p.text : p \in Pages} |-> extract_fields(t)]

VARIABLES
    now,                \* time.time(), in ticks
    seen,               \* _seen: fingerprint -> time of the mark
    MIN_LAND_M2,        \* the configuration, read once at import
    TELEGRAM_BOT_TOKEN,
    TELEGRAM_CHAT_ID,
    pc,                 \* per request: idle, fetching, sending, done
    url,                \* per request: str(payload.url)
    page,               \* per request: the (html, text) fetch_page_text returned
    fields,             \* per request: the result of extract_fields
    msg,                \* per request: the result of format_message
    resp,               \* per request: the HTTP response
    trace,              \* per request: the steps it has run, in order
    posts,              \* per request: the texts posted to the endpoint
    markAt,             \* per request: the time it wrote in _seen, or -1
    fetchExc,           \* per request: what fetch_page_text raised, or ""
    answer,             \* per request: what the endpoint answered, or -1
    gcAt                \* per request: the time gc_seen read, or -1

pipeVars ==
    <<now, seen, MIN_LAND_M2, TELEGRAM_BOT_TOKEN, TELEGRAM_CHAT_ID, pc, url,
      page, fields, msg, resp, trace, posts, markAt, fetchExc, answer, gcAt>>

VARIABLES
    PROXY_SERVER,       \* the configuration of the proxy
    PROXY_USER,
    PROXY_PASS,
    fpc,                \* the await fetch_page_text is suspended in
    furl,               \* its argument
    proxy_cfg,          \* the proxy passed to launch, << >> for None
    playwright,         \* the driver: off, running, stopped
    browser,            \* none, open, closed
    context,            \* none, open, closed
    exc,                \* the exception being raised, "" for none
    fhtml,              \* html
    ftext,              \* text
    fresult,            \* the (html, text) returned, << >> for none
    failedAt            \* the awaits that raised, in order

fetchVars ==
    <<PROXY_SERVER, PROXY_USER, PROXY_PASS, fpc, furl, proxy_cfg, playwright,
      browser, context, exc, fhtml, ftext, fresult, failedAt>>

VARIABLES
    fmtUrl,             \* format_message: url
    fmtFields,          \* format_message: fields
    fmtOut,             \* format_message: the lines of the result
    fmtDone             \* whether format_message has returned

fmtVars == <<fmtUrl, fmtFields, fmtOut, fmtDone>>

VARIABLES
    exText,             \* extract_fields: text
    exFields,           \* extract_fields: the dict returned
    exStatus,           \* what webhook does with it: "" before the call
    chHtml,             \* looks_like_challenge: html, << >> for None or ""
    chResult,           \* looks_like_challenge: the bool returned
    pureDone            \* whether the function has returned

pureVars == <<exText, exFields, exStatus, chHtml, chResult, pureDone>>

vars == <<pipeVars, fetchVars, fmtVars, pureVars>>

\* What a step of the pipeline leaves alone.
notPipe == <<fetchVars, fmtVars, pureVars>>
\* What a step of fetch_page_text leaves alone.
notFetch == <<pipeVars, fmtVars, pureVars>>
\* What format_message leaves alone.
notFmt == <<pipeVars, fetchVars, pureVars>>
\* What extract_fields and looks_like_challenge leave alone.
notPure == <<pipeVars, fetchVars, fmtVars>>

NoPage == [html |-> <<>>, text |-> <<>>]
NoFields == [land_m2 |-> None, price_eur |-> None, area_m2 |-> None]
NoResp == [code |-> 0, status |-> "", detail |-> ""]
\* A returned dict: FastAPI answers 200 with the dict as JSON.
Returned(status) == [code |-> 200, status |-> status, detail |-> ""]
\* raise HTTPException(status_code=code, detail=detail)
HTTPException(code, detail) == [code |-> code, status |-> "", detail |-> detail]

\* The configuration of the pipeline, read from the environment at import.
PipeConfig ==
    /\ MIN_LAND_M2 \in MinLandValues
    /\ TELEGRAM_BOT_TOKEN \in TokenValues
    /\ TELEGRAM_CHAT_ID \in ChatIdValues

\* The pipeline after the import: _seen is empty and no request has arrived.
PipeAtRest ==
    /\ now = 0
    /\ seen = << >>
    /\ pc = [r \in Requests |-> "idle"]
    /\ url = [r \in Requests |-> ""]
    /\ page = [r \in Requests |-> NoPage]
    /\ fields = [r \in Requests |-> NoFields]
    /\ msg = [r \in Requests |-> <<>>]
    /\ resp = [r \in Requests |-> NoResp]
    /\ trace = [r \in Requests |-> <<>>]
    /\ posts = [r \in Requests |-> <<>>]
    /\ markAt = [r \in Requests |-> -1]
    /\ fetchExc = [r \in Requests |-> ""]
    /\ answer = [r \in Requests |-> -1]
    /\ gcAt = [r \in Requests |-> -1]

\* hashlib.sha256(url.encode("utf-8")).hexdigest(): one fingerprint per URL.
dedup_key(u) == "sha256(" \o u \o ")"

\* Expired with the comparison inverted: the live entries are the ones popped.
ExpiredInverted(t, v) == (t - v) < DEDUP_TTL_SECONDS

\* Expired with the bound included: an entry of age TTL is popped too.
ExpiredAtTTL(t, v) == (t - v) >= DEDUP_TTL_SECONDS

\* (t - v) > DEDUP_TTL_SECONDS
Expired(t, v) == (t - v) > DEDUP_TTL_SECONDS

\* gc_seen that pops nothing.
gc_seen_keeps(s, t) == s

\* gc_seen() at time t: every expired entry is popped.
gc_seen(s, t) ==
    [k \in {k \in DOMAIN s : ~Expired(t, s[k])} |-> s[k]]

\* The mark forgotten: _seen is left as it is.
MarkSeenForgotten(s, key, t) == s

\* The mark replacing the store: _seen = {key: t}.
MarkSeenAlone(s, key, t) == [k \in {key} |-> t]

\* _seen[key] = t
MarkSeen(s, key, t) ==
    [k \in DOMAIN s \cup {key} |-> IF k = key THEN t ELSE s[k]]

\* The store after the gate forgot the test: the mark is written on a
\* duplicate too, which refreshes its time.
StoreAfterGateRefreshing(s, key, t) == MarkSeen(s, key, t)

\* if key in _seen: return ...; _seen[key] = now_ts(): the store after the
\* gate, from the swept store s: untouched on a duplicate, marked otherwise.
StoreAfterGate(s, key, t) ==
    IF key \in DOMAIN s THEN s ELSE MarkSeen(s, key, t)

\* The filter switched off.
BelowThresholdNever(min, land) == FALSE

\* The filter with the threshold excluded: land_m2 <= MIN_LAND_M2.
BelowThresholdInclusive(min, land) == min # 0 /\ land <= min

\* if MIN_LAND_M2 and land_m2 < MIN_LAND_M2
BelowThreshold(min, land) == min # 0 /\ land < min

\* if not TELEGRAM_BOT_TOKEN or not TELEGRAM_CHAT_ID
\* The test with "and" for "or": one credential is enough to go on.
MissingCredentialsBoth(token, chat) == token = "" /\ chat = ""

MissingCredentials(token, chat) == token = "" \/ chat = ""

\* except PwTimeoutError: 504; except Exception: 502
FetchErrorResponse(e) ==
    IF e = "PwTimeoutError"
    THEN HTTPException(504, "Timeout loading page")
    ELSE HTTPException(502, "Browser error")

\* The failure of the delivery swallowed: posted whatever the answer.
SendResponseSwallowed(a) == Returned("posted")

\* The answer of the endpoint, 0 for an exception of the client: status 200
\* gives posted; telegram_send raises on any other and webhook gives 502.
SendResponse(a) ==
    IF a = 200
    THEN Returned("posted")
    ELSE HTTPException(502, "Telegram send failed")

\* A failed delivery sent again: the request waits for the endpoint anew.
AfterSendRetrying(a) == IF a = 200 THEN "done" ELSE "sending"

\* Where the request goes once the endpoint answered: telegram_send returns
\* or raises, and webhook returns posted or raises the 502; nothing loops.
AfterSend(a) == "done"

\* The message posted a second time after the first post.
PostRetried(ps, m) == Append(Append(ps, m), m)

\* r = await client.post(url, data=data): one post of the message, added to
\* the posts ps the request has made.
Post(ps, m) == Append(ps, m)

\* The clock advances.
Tick ==
    /\ now < MaxTime
    /\ now' = now + 1
    /\ UNCHANGED <<seen, MIN_LAND_M2, TELEGRAM_BOT_TOKEN, TELEGRAM_CHAT_ID,
                   pc, url, page, fields, msg, resp, trace, posts, markAt,
                   fetchExc, answer, gcAt>>
    /\ UNCHANGED notPipe

\* webhook, from the request to its first suspension: the sweep, the
\* membership test and the mark run with no await in between, and the
\* request suspends in fetch_page_text.  now_ts() is read twice, by gc_seen
\* and by the mark: the clock may advance between the two readings.
\* Requests are numbered in the order of their arrival.
WebhookStart(r, u) ==
    /\ pc[r] = "idle"
    /\ \A q \in Requests : q < r => pc[q] # "idle"
    /\ LET swept == gc_seen(seen, now)
           key == dedup_key(u)
       IN  IF key \in DOMAIN swept
           THEN /\ seen' = StoreAfterGate(swept, key, now)
                /\ now' = now
                /\ pc' = [pc EXCEPT ![r] = "done"]
                /\ resp' = [resp EXCEPT ![r] = Returned("dedup_skipped")]
                /\ markAt' = markAt
           ELSE \E t2 \in {now, now + 1} :
                /\ t2 <= MaxTime
                /\ now' = t2
                /\ seen' = StoreAfterGate(swept, key, t2)
                /\ pc' = [pc EXCEPT ![r] = "fetching"]
                /\ resp' = resp
                /\ markAt' = [markAt EXCEPT ![r] = t2]
    /\ url' = [url EXCEPT ![r] = u]
    /\ trace' = [trace EXCEPT ![r] = <<"dedup">>]
    /\ gcAt' = [gcAt EXCEPT ![r] = now]
    /\ UNCHANGED <<MIN_LAND_M2, TELEGRAM_BOT_TOKEN, TELEGRAM_CHAT_ID, page,
                   fields, msg, posts, fetchExc, answer>>
    /\ UNCHANGED notPipe

\* fetch_page_text raised e: webhook answers with the HTTPException.
FetchFailed(r, e) ==
    /\ pc[r] = "fetching"
    /\ pc' = [pc EXCEPT ![r] = "done"]
    /\ fetchExc' = [fetchExc EXCEPT ![r] = e]
    /\ trace' = [trace EXCEPT ![r] = Append(@, "fetch")]
    /\ resp' = [resp EXCEPT ![r] = FetchErrorResponse(e)]
    /\ UNCHANGED <<now, seen, MIN_LAND_M2, TELEGRAM_BOT_TOKEN,
                   TELEGRAM_CHAT_ID, url, page, fields, msg, posts, markAt,
                   answer, gcAt>>
    /\ UNCHANGED notPipe

\* webhook, from the return of fetch_page_text to the next suspension (the
\* post of telegram_send) or to the response: the challenge gate, the
\* extraction, the land gate, the filter, the message and the credentials
\* test of telegram_send.
FetchReturned(r, html, text) ==
    /\ pc[r] = "fetching"
    /\ page' = [page EXCEPT ![r] = [html |-> html, text |-> text]]
    /\ LET f == FieldsOf[text]
           land == f.land_m2
           m == format_message(url[r], f)
       IN  IF ChallengeOf[html]
           THEN /\ pc' = [pc EXCEPT ![r] = "done"]
                /\ trace' = [trace EXCEPT ![r] = @ \o <<"fetch", "challenge">>]
                /\ resp' = [resp EXCEPT ![r] =
                              HTTPException(403, "Blocked by challenge/CAPTCHA")]
                /\ UNCHANGED <<fields, msg, posts>>
           ELSE IF land = None
           THEN /\ pc' = [pc EXCEPT ![r] = "done"]
                /\ trace' = [trace EXCEPT ![r] =
                               @ \o <<"fetch", "challenge", "extract">>]
                /\ fields' = [fields EXCEPT ![r] = f]
                /\ resp' = [resp EXCEPT ![r] = Returned("no_land_field")]
                /\ UNCHANGED <<msg, posts>>
           ELSE IF BelowThreshold(MIN_LAND_M2, Val(land))
           THEN /\ pc' = [pc EXCEPT ![r] = "done"]
                /\ trace' = [trace EXCEPT ![r] =
                               @ \o <<"fetch", "challenge", "extract", "filter">>]
                /\ fields' = [fields EXCEPT ![r] = f]
                /\ resp' = [resp EXCEPT ![r] = Returned("filtered_out")]
                /\ UNCHANGED <<msg, posts>>
           ELSE /\ trace' = [trace EXCEPT ![r] =
                               @ \o <<"fetch", "challenge", "extract",
                                      "filter", "notify">>]
                /\ fields' = [fields EXCEPT ![r] = f]
                /\ msg' = [msg EXCEPT ![r] = m]
                /\ IF MissingCredentials(TELEGRAM_BOT_TOKEN, TELEGRAM_CHAT_ID)
                   THEN /\ pc' = [pc EXCEPT ![r] = "done"]
                        /\ resp' = [resp EXCEPT ![r] =
                                      HTTPException(502, "Telegram send failed")]
                        /\ posts' = posts
                   ELSE /\ pc' = [pc EXCEPT ![r] = "sending"]
                        /\ resp' = resp
                        /\ posts' = [posts EXCEPT ![r] = Post(@, m)]
    /\ UNCHANGED <<now, seen, MIN_LAND_M2, TELEGRAM_BOT_TOKEN,
                   TELEGRAM_CHAT_ID, url, markAt, fetchExc, answer, gcAt>>
    /\ UNCHANGED notPipe

\* telegram_send and webhook, from the answer of the endpoint (a status, or
\* an exception of the client, its 20 s timeout included) to the response.
SendDone(r, a) ==
    /\ pc[r] = "sending"
    /\ pc' = [pc EXCEPT ![r] = AfterSend(a)]
    /\ answer' = [answer EXCEPT ![r] = a]
    /\ resp' = [resp EXCEPT ![r] = SendResponse(a)]
    /\ UNCHANGED <<now, seen, MIN_LAND_M2, TELEGRAM_BOT_TOKEN,
                   TELEGRAM_CHAT_ID, url, page, fields, msg, trace, posts,
                   markAt, fetchExc, gcAt>>
    /\ UNCHANGED notPipe

\* What the endpoint may answer: a status, or 0 for an exception.
Answers == {200, 400, 0}
\* What fetch_page_text may raise.
FetchExceptions == {"PwTimeoutError", "Error"}

\* --------------------------------------------------------- fetch_page_text
proxyEnv == <<PROXY_SERVER, PROXY_USER, PROXY_PASS>>

\* The renderer at rest.
FetchAtRest ==
    /\ fpc = "idle"
    /\ furl = ""
    /\ proxy_cfg = << >>
    /\ playwright = "off"
    /\ browser = "none"
    /\ context = "none"
    /\ exc = ""
    /\ fhtml = <<>>
    /\ ftext = <<>>
    /\ fresult = <<>>
    /\ failedAt = <<>>

\* The configuration of the proxy, read from the environment at import.
FetchConfig ==
    /\ PROXY_SERVER \in {"", "http://proxy:8080"}
    /\ PROXY_USER \in {"", "user"}
    /\ PROXY_PASS \in {"", "secret"}

\* proxy_cfg of fetch_page_text: None without PROXY_SERVER, else the server
\* with the user name and the password that are set.
ProxyConfig(server, user, pass) ==
    IF server = "" THEN << >>
    ELSE LET keys == {"server"} \cup (IF user # "" THEN {"username"} ELSE {})
                         \cup (IF pass # "" THEN {"password"} ELSE {})
         IN  [k \in keys |-> IF k = "server" THEN server
                             ELSE IF k = "username" THEN user ELSE pass]

\* What an awaited call of the browser API may do: complete, or raise.
Outcomes == {"ok", "PwTimeoutError", "Error"}

\* The driver started without its scope: nothing ends with the call.
NotStoppedWithDriver(res) == res

\* What ends with the driver: stopping the driver (the exit of
\* "async with async_playwright()") ends the browser it launched and the
\* contexts of that browser.
StoppedWithDriver(res) == IF res = "open" THEN "closed" ELSE res

\* The call: proxy_cfg is computed and the driver is being started.
FetchCall(u) ==
    /\ fpc = "idle"
    /\ fpc' = "aenter"
    /\ furl' = u
    /\ proxy_cfg' = ProxyConfig(PROXY_SERVER, PROXY_USER, PROXY_PASS)
    /\ UNCHANGED <<proxyEnv, playwright, browser, context, exc, fhtml, ftext,
                   fresult, failedAt>>
    /\ UNCHANGED notFetch

\* The awaited call completes: the next await is next.
StepDone(next) ==
    /\ fpc' = next
    /\ UNCHANGED <<exc, failedAt>>

\* The awaited call raises o.  Before the try block the with block is left
\* at once; in the try block the finally block runs first.
StepRaises(o, inTry) ==
    /\ exc' = o
    /\ failedAt' = Append(failedAt, fpc)
    /\ fpc' = IF inTry THEN "ctx_close" ELSE "aexit"

\* async with async_playwright() as p: the driver starts, or the call raises.
PlaywrightEnter(o) ==
    /\ fpc = "aenter"
    /\ IF o = "ok"
       THEN /\ playwright' = "running"
            /\ StepDone("launch")
       ELSE /\ playwright' = playwright
            /\ exc' = o
            /\ failedAt' = Append(failedAt, fpc)
            /\ fpc' = "raised"
    /\ UNCHANGED <<proxyEnv, furl, proxy_cfg, browser, context, fhtml, ftext,
                   fresult>>
    /\ UNCHANGED notFetch

\* browser = await p.chromium.launch(...)
Launch(o) ==
    /\ fpc = "launch"
    /\ IF o = "ok"
       THEN browser' = "open" /\ StepDone("new_context")
       ELSE browser' = browser /\ StepRaises(o, FALSE)
    /\ UNCHANGED <<proxyEnv, furl, proxy_cfg, playwright, context, fhtml,
                   ftext, fresult>>
    /\ UNCHANGED notFetch

\* context = await browser.new_context(...)
NewContext(o) ==
    /\ fpc = "new_context"
    /\ IF o = "ok"
       THEN context' = "open" /\ StepDone("route")
       ELSE context' = context /\ StepRaises(o, FALSE)
    /\ UNCHANGED <<proxyEnv, furl, proxy_cfg, playwright, browser, fhtml,
                   ftext, fresult>>
    /\ UNCHANGED notFetch

\* await context.route("**/*", route_handler)
Route(o) ==
    /\ fpc = "route"
    /\ IF o = "ok" THEN StepDone("new_page") ELSE StepRaises(o, FALSE)
    /\ UNCHANGED <<proxyEnv, furl, proxy_cfg, playwright, browser, context,
                   fhtml, ftext, fresult>>
    /\ UNCHANGED notFetch

\* page = await context.new_page()
NewPage(o) ==
    /\ fpc = "new_page"
    /\ IF o = "ok" THEN StepDone("goto") ELSE StepRaises(o, FALSE)
    /\ UNCHANGED <<proxyEnv, furl, proxy_cfg, playwright, browser, context,
                   fhtml, ftext, fresult>>
    /\ UNCHANGED notFetch

\* await page.goto(url, wait_until="domcontentloaded", timeout=NAV_TIMEOUT_MS)
Goto(o) ==
    /\ fpc = "goto"
    /\ IF o = "ok" THEN StepDone("wait") ELSE StepRaises(o, TRUE)
    /\ UNCHANGED <<proxyEnv, furl, proxy_cfg, playwright, browser, context,
                   fhtml, ftext, fresult>>
    /\ UNCHANGED notFetch

\* await page.wait_for_timeout(POST_LOAD_WAIT_MS)
WaitForTimeout(o) ==
    /\ fpc = "wait"
    /\ IF o = "ok" THEN StepDone("content") ELSE StepRaises(o, TRUE)
    /\ UNCHANGED <<proxyEnv, furl, proxy_cfg, playwright, browser, context,
                   fhtml, ftext, fresult>>
    /\ UNCHANGED notFetch

\* html = await page.content()
Content(o, h) ==
    /\ fpc = "content"
    /\ IF o = "ok"
       THEN fhtml' = h /\ StepDone("inner_text")
       ELSE fhtml' = fhtml /\ StepRaises(o, TRUE)
    /\ UNCHANGED <<proxyEnv, furl, proxy_cfg, playwright, browser, context,
                   ftext, fresult>>
    /\ UNCHANGED notFetch

\* text = await page.inner_text("body"), the clamp, and return html, text:
\* the finally block runs before the call returns.
InnerText(o, t) ==
    /\ fpc = "inner_text"
    /\ IF o = "ok"
       THEN /\ ftext' = Clamp(t)
            /\ fresult' = <<fhtml, Clamp(t)>>
            /\ StepDone("ctx_close")
       ELSE /\ UNCHANGED <<ftext, fresult>>
            /\ StepRaises(o, TRUE)
    /\ UNCHANGED <<proxyEnv, furl, proxy_cfg, playwright, browser, context,
                   fhtml>>
    /\ UNCHANGED notFetch

\* finally: await context.close().  When it raises, its exception replaces
\* the one being raised or the return value, browser.close() is skipped,
\* and the context is closed or is left open.
ContextClose(o, left) ==
    /\ fpc = "ctx_close"
    /\ IF o = "ok"
       THEN /\ context' = "closed"
            /\ fresult' = fresult
            /\ StepDone("browser_close")
       ELSE /\ context' = left
            /\ fresult' = <<>>
            /\ StepRaises(o, FALSE)
    /\ UNCHANGED <<proxyEnv, furl, proxy_cfg, playwright, browser, fhtml,
                   ftext>>
    /\ UNCHANGED notFetch

\* finally: await browser.close(), which closes the contexts of the browser
\* too.  When it raises, its exception replaces the one being raised or the
\* return value, and the browser is closed or is left open.
BrowserClose(o, left) ==
    /\ fpc = "browser_close"
    /\ IF o = "ok"
       THEN /\ browser' = "closed"
            /\ fresult' = fresult
            /\ StepDone("aexit")
       ELSE /\ browser' = left
            /\ fresult' = <<>>
            /\ StepRaises(o, FALSE)
    /\ UNCHANGED <<proxyEnv, furl, proxy_cfg, playwright, context, fhtml,
                   ftext>>
    /\ UNCHANGED notFetch

\* The exit of "async with async_playwright()": the driver is stopped, and
\* the call returns its value or raises its exception.
PlaywrightExit ==
    /\ fpc = "aexit"
    /\ playwright' = "stopped"
    /\ browser' = StoppedWithDriver(browser)
    /\ context' = StoppedWithDriver(context)
    /\ fpc' = IF exc = "" THEN "returned" ELSE "raised"
    /\ UNCHANGED <<proxyEnv, furl, proxy_cfg, exc, fhtml, ftext, fresult,
                   failedAt>>
    /\ UNCHANGED notFetch

\* ---------------------------------------------------------- format_message
\* The values of a field: absent, or one of these integers.
FieldValues == {0, 120, 500}
OptionalFields == {None} \cup {Some(n) : n \in FieldValues}

FmtAtRest ==
    /\ fmtUrl = ""
    /\ fmtFields = NoFields
    /\ fmtOut = <<>>
    /\ fmtDone = FALSE

\* The arguments of a call of format_message.
FmtArguments ==
    /\ fmtUrl \in URLs
    /\ fmtFields \in [land_m2 : OptionalFields, price_eur : OptionalFields,
                      area_m2 : OptionalFields]
    /\ fmtOut = <<>>
    /\ fmtDone = FALSE

\* format_message(url, fields) returns.
Format ==
    /\ ~fmtDone
    /\ fmtOut' = format_message(fmtUrl, fmtFields)
    /\ fmtDone' = TRUE
    /\ UNCHANGED <<fmtUrl, fmtFields>>
    /\ UNCHANGED notFmt

\* ---------------------------------------------- extract_fields, the calls
\* n in decimal, digit by digit.
RECURSIVE DigitsOf(_)
DigitsOf(n) ==
    IF n < 10 THEN <<Digits[n + 1]>>
    ELSE Append(DigitsOf(n \div 10), Digits[(n % 10) + 1])

RECURSIVE Grouped(_, _)
\* The digits d with sep between the groups of three, from the right.
Grouped(d, sep) ==
    IF Len(d) <= 3 THEN d
    ELSE Grouped(SubSeq(d, 1, Len(d) - 3), sep) \o sep
             \o SubSeq(d, Len(d) - 2, Len(d))

\* How a page writes the number n: plain digits (sep = << >>) or with a
\* thousands separator.
Written(n, sep) == Grouped(DigitsOf(n), sep)
PlainDigits == << >>
ThousandsSeparators == {<<",">>, <<".">>, <<" ">>, <<NBSP>>}
Writings == {PlainDigits} \cup ThousandsSeparators

\* One label of each land rule, in the order of land_patterns.
RuleLabels == <<"Plot area", "Lot size", "Εμβαδόν οικοπέδου">>
\* What a page puts between a label and its number.
SeparatorRuns == {<<":", " ">>, <<" ">>}
\* The land areas of the pages: every N up to MaxLand and some larger.
LandValues == (1..MaxLand) \cup {2640, 12345}

\* A label, a separator run without digits and a number.
NumberTexts ==
    {<<RuleLabels[k]>> \o run \o Written(n, w) :
        k \in 1..Len(RuleLabels), run \in SeparatorRuns,
        n \in LandValues, w \in Writings}

\* A text with no digit at all, with or without a label.
DigitlessTexts ==
    {NoNumbers} \cup
    {<<RuleLabels[k]>> \o run : k \in 1..Len(RuleLabels), run \in SeparatorRuns}

\* More characters without a digit than any [^0-9]{0,n} of the rules spans.
Filler ==
    "xxxxxxxxxxxxxxxxxxxxxxxxxxxxxxxxxxxxxxxxxxxxxxxxxxxxxxxxxxxxxxxxxxxxxxxxxxxxxxxxxxxxxxxxxxxxxxxxxxxxxxxxxxxxxxxxxxxxxxxxxxxxxxxxxx"
\* A line of a page: a label and a value, the value possibly absent or
\* further from the label than the rule allows.
Line(label, far, value) ==
    <<label, ":", " ">> \o (IF far THEN <<Filler, " ">> ELSE << >>)
        \o value \o <<"\n">>
LineValues == {<< >>, <<"0">>, <<"2", "5", "0">>, <<"5", "0", "0">>}
Lines ==
    {<< >>, Line("Rooms", FALSE, <<"3">>), Line("Rooms", FALSE, << >>)}
    \cup {Line(RuleLabels[k], FALSE, v) : k \in 1..Len(RuleLabels), v \in LineValues}
    \cup {Line(RuleLabels[k], TRUE, <<"5", "0", "0">>) : k \in 1..Len(RuleLabels)}
\* Pages of three lines, the labels in any order.
LineTexts == {a \o b \o c : a \in Lines, b \in Lines, c \in Lines}

ExtractTexts == NumberTexts \cup DigitlessTexts \cup LineTexts

\* webhook after extract_fields: land_m2 None ends the request.
LandGate(f) == IF f.land_m2 = None THEN "no_land_field" ELSE "land_found"

PureAtRest ==
    /\ exText = << >>
    /\ exFields = NoFields
    /\ exStatus = ""
    /\ chHtml = << >>
    /\ chResult = FALSE
    /\ pureDone = FALSE

\* The argument of a call of extract_fields.
ExtractArguments ==
    /\ exText \in ExtractTexts
    /\ exFields = NoFields
    /\ exStatus = ""
    /\ chHtml = << >>
    /\ chResult = FALSE
    /\ pureDone = FALSE

\* fields = extract_fields(text), and what webhook does with land_m2.
Extract ==
    /\ ~pureDone
    /\ exFields' = extract_fields(exText)
    /\ exStatus' = LandGate(extract_fields(exText))
    /\ pureDone' = TRUE
    /\ UNCHANGED <<exText, chHtml, chResult>>
    /\ UNCHANGED notPure

\* ---------------------------------------- looks_like_challenge, the calls
\* The upper case of a character (ASCII).
UpperChar(c) ==
    IF \E i \in 1..26 : LowerCase[i] = c
    THEN UpperCase[CHOOSE i \in 1..26 : LowerCase[i] = c]
    ELSE c

\* A marker in a letter case: lower, UPPER, Title or mIxEd.
LetterCases == {"lower", "upper", "title", "mixed"}
Cased(s, lc) ==
    [i \in 1..Len(s) |->
        IF \/ lc = "upper"
           \/ lc = "title" /\ i = 1
           \/ lc = "mixed" /\ i % 2 = 0
        THEN UpperChar(s[i]) ELSE s[i]]

\* What a markup holds before and after a marker.
Before ==
    {<< >>,
     <<"r", "e">>,
     <<"<", "d", "i", "v", " ", "c", "l", "a", "s", "s", "=", "\"">>}
After ==
    {<< >>,
     <<"\"", ">", "<", "/", "d", "i", "v", ">">>}

\* The markups that contain a marker, in some letter case.
MarkedMarkups ==
    {b \o Cased(ChallengeMarkers[k], lc) \o a :
        b \in Before, k \in 1..Len(ChallengeMarkers), lc \in LetterCases,
        a \in After}

\* Markups that contain no marker: None, "", a page, and near misses.
UnmarkedMarkups ==
    {MissingMarkup, << >>, CleanMarkup,
     <<"c", "a", "p", "t", "c", "h", " ", "a">>,
     <<"c", "f", "_", "c", "h", "a", "l", "l", "e", "n", "g", "e">>,
     <<"c", "l", "o", "u", "d", " ", "f", "l", "a", "r", "e">>,
     <<"c", "h", "e", "c", "k", "i", "n", "g", " ", " ", "y", "o", "u",
       "r", " ", "b", "r", "o", "w", "s", "e", "r">>,
     <<"c", "d", "n", "-", "c", "g", "i">>,
     <<"t", "u", "r", "n", "-", "s", "t", "i", "l", "e">>,
     <<"<", "h", "t", "m", "l", ">", "h", "e", "l", "l", "o", "<", "/",
       "h", "t", "m", "l", ">">>}

ChallengeArguments ==
    /\ chHtml \in MarkedMarkups \cup UnmarkedMarkups
    /\ chResult = FALSE
    /\ exText = << >>
    /\ exFields = NoFields
    /\ exStatus = ""
    /\ pureDone = FALSE

\* looks_like_challenge(html) returns.
Challenge ==
    /\ ~pureDone
    /\ chResult' = looks_like_challenge(chHtml)
    /\ pureDone' = TRUE
    /\ UNCHANGED <<chHtml, exText, exFields, exStatus>>
    /\ UNCHANGED notPure

\* ------------------------------------------------------ the specifications
\* The pipeline: the requests of the webhook, fetch_page_text taken as one
\* suspension that ends with its return or its exception.
Init ==
    /\ PipeConfig
    /\ PipeAtRest
    /\ PROXY_SERVER = "" /\ PROXY_USER = "" /\ PROXY_PASS = ""
    /\ FetchAtRest
    /\ FmtAtRest
    /\ PureAtRest

Next ==
    \/ Tick
    \/ \E r \in Requests, u \in URLs : WebhookStart(r, u)
    \/ \E r \in Requests, e \in FetchExceptions : FetchFailed(r, e)
    \/ \E r \in Requests, p \in Pages : FetchReturned(r, p.html, p.text)
    \/ \E r \in Requests, a \in Answers : SendDone(r, a)

Spec == Init /\ [][Next]_vars

\* The pipeline with its timeouts: a render that has started ends
\* (page.goto has timeout=NAV_TIMEOUT_MS and the other awaits of
\* fetch_page_text end or raise), and a post that has started is answered
\* or fails (httpx.AsyncClient(timeout=20)).
RenderEnds(r) ==
    \/ \E e \in FetchExceptions : FetchFailed(r, e)
    \/ \E p \in Pages : FetchReturned(r, p.html, p.text)
PostEnds(r) == \E a \in Answers : SendDone(r, a)

SpecLive ==
    /\ Spec
    /\ \A r \in Requests : WF_vars(RenderEnds(r)) /\ WF_vars(PostEnds(r))

\* The renderer: one call of fetch_page_text, await by await.
InitFetch ==
    /\ MIN_LAND_M2 = 0 /\ TELEGRAM_BOT_TOKEN = "" /\ TELEGRAM_CHAT_ID = ""
    /\ PipeAtRest
    /\ FetchConfig
    /\ FetchAtRest
    /\ FmtAtRest
    /\ PureAtRest

NextFetch ==
    \/ \E u \in URLs : FetchCall(u)
    \/ \E o \in Outcomes : PlaywrightEnter(o)
    \/ \E o \in Outcomes : Launch(o)
    \/ \E o \in Outcomes : NewContext(o)
    \/ \E o \in Outcomes : Route(o)
    \/ \E o \in Outcomes : NewPage(o)
    \/ \E o \in Outcomes : Goto(o)
    \/ \E o \in Outcomes : WaitForTimeout(o)
    \/ \E o \in Outcomes, h \in Markups : Content(o, h)
    \/ \E o \in Outcomes, t \in PageTexts \cup {NoNumbers} : InnerText(o, t)
    \/ \E o \in Outcomes, left \in {"open", "closed"} : ContextClose(o, left)
    \/ \E o \in Outcomes, left \in {"open", "closed"} : BrowserClose(o, left)
    \/ PlaywrightExit

SpecFetch == InitFetch /\ [][NextFetch]_vars

\* The formatter: one call of format_message on each combination of fields.
InitFormat ==
    /\ MIN_LAND_M2 = 0 /\ TELEGRAM_BOT_TOKEN = "" /\ TELEGRAM_CHAT_ID = ""
    /\ PipeAtRest
    /\ PROXY_SERVER = "" /\ PROXY_USER = "" /\ PROXY_PASS = ""
    /\ FetchAtRest
    /\ FmtArguments
    /\ PureAtRest

NextFormat == Format

SpecFormat == InitFormat /\ [][NextFormat]_vars

\* The extractor: one call of extract_fields on each text.
InitExtract ==
    /\ MIN_LAND_M2 = 0 /\ TELEGRAM_BOT_TOKEN = "" /\ TELEGRAM_CHAT_ID = ""
    /\ PipeAtRest
    /\ PROXY_SERVER = "" /\ PROXY_USER = "" /\ PROXY_PASS = ""
    /\ FetchAtRest
    /\ FmtAtRest
    /\ ExtractArguments

NextExtract == Extract

SpecExtract == InitExtract /\ [][NextExtract]_vars

\* The challenge test: one call of looks_like_challenge on each markup.
InitChallenge ==
    /\ MIN_LAND_M2 = 0 /\ TELEGRAM_BOT_TOKEN = "" /\ TELEGRAM_CHAT_ID = ""
    /\ PipeAtRest
    /\ PROXY_SERVER = "" /\ PROXY_USER = "" /\ PROXY_PASS = ""
    /\ FetchAtRest
    /\ FmtAtRest
    /\ ChallengeArguments

NextChallenge == Challenge

SpecChallenge == InitChallenge /\ [][NextChallenge]_vars

\* ---------------------------------------------------------------- claims
Done(r) == pc[r] = "done"
\* Request r passed the dedup gate (it wrote its mark).
Passed(r) == markAt[r] >= 0
Deduped(r) == Done(r) /\ resp[r] = Returned("dedup_skipped")
\* Request r takes its first step, with URL u.
Starts(r, u) == pc[r] = "idle" /\ pc'[r] # "idle" /\ url'[r] = u
Abs(n) == IF n < 0 THEN -n ELSE n

\* C1: whatever the outcome of a first request for a URL (it has answered,
\* with a failure or not), a request for the same URL that starts no later
\* than TTL after the first one's mark is answered dedup_skipped.
C1_DedupWithinTTL ==
    [][\A r \in Requests, q \in Requests :
          ( /\ q # r
            /\ Done(q) /\ Passed(q)
            /\ Starts(r, url[q])
            /\ now - markAt[q] <= DEDUP_TTL_SECONDS )
          => (Done(r) /\ resp[r] = Returned("dedup_skipped"))']_vars

\* C1 happens: a first request failed (504, 502, 403), or was filtered or
\* posted, and a second one for its URL was deduplicated within the TTL.
C1_Witness ==
    \E r \in Requests, q \in Requests :
        /\ Deduped(r) /\ Done(q) /\ Passed(q) /\ url[r] = url[q]
        /\ resp[q].code = 504
        /\ now - markAt[q] = DEDUP_TTL_SECONDS

\* C2 as stated: once TTL seconds have elapsed since the first sighting of a
\* URL, a request for it passes the dedup gate.
C2_Original ==
    [][\A r \in Requests, u \in URLs :
          ( /\ Starts(r, u)
            /\ dedup_key(u) \in DOMAIN seen
            /\ now - seen[dedup_key(u)] >= DEDUP_TTL_SECONDS )
          => (pc[r] = "fetching")']_vars

\* C2, amended: once more than TTL seconds have elapsed since the first
\* sighting of a URL, a request for it is a first sighting: the old entry is
\* gone, the fingerprint is recorded with the current time and the request
\* goes on to fetch.
C2_FirstSightingAfterTTL ==
    [][\A r \in Requests, u \in URLs :
          ( /\ Starts(r, u)
            /\ dedup_key(u) \in DOMAIN seen
            /\ now - seen[dedup_key(u)] > DEDUP_TTL_SECONDS )
          => ( /\ pc[r] = "fetching"
               /\ dedup_key(u) \in DOMAIN seen
               /\ seen[dedup_key(u)] = now
               /\ markAt[r] = now
               /\ trace[r] = <<"dedup">>
               /\ resp[r] = NoResp )']_vars

\* C2 happens: a request passed the gate for a URL that an earlier request
\* had marked more than TTL before.
C2_Witness ==
    \E r \in Requests, q \in Requests :
        /\ q # r /\ url[q] = url[r] /\ Passed(q) /\ Passed(r)
        /\ markAt[r] - markAt[q] > DEDUP_TTL_SECONDS
        /\ pc[r] = "fetching"
        /\ seen[dedup_key(url[r])] = markAt[r]

\* C3: while the entry a request wrote is live, the entry is in the store
\* with the time of that request (it is there when the render begins), and no
\* other request for the URL has passed the gate: two requests that passed
\* it for one URL wrote their marks more than TTL apart.
C3_OnePassesWhileLive ==
    \A r \in Requests :
        (Passed(r) /\ now - markAt[r] <= DEDUP_TTL_SECONDS)
        => /\ dedup_key(url[r]) \in DOMAIN seen
           /\ seen[dedup_key(url[r])] = markAt[r]
           /\ \A q \in Requests :
                 (q # r /\ Passed(q) /\ url[q] = url[r])
                 => Abs(markAt[q] - markAt[r]) > DEDUP_TTL_SECONDS

\* C3 happens: a duplicate arrived while the first request was rendering,
\* and was deduplicated.
C3_Witness ==
    \E r \in Requests, q \in Requests :
        /\ pc[q] = "fetching" /\ Deduped(r) /\ url[r] = url[q]

GateOrder == <<"dedup", "fetch", "challenge", "extract", "filter", "notify">>
IsPrefix(s, t) == Len(s) <= Len(t) /\ \A i \in 1..Len(s) : s[i] = t[i]
\* fetch_page_text returned to request r.
Rendered(r) == page[r] # NoPage
\* The markup request r rendered holds a challenge marker.
Challenged(r) == page[r].html = ChallengeMarkup
\* The land area the extractor finds in the text request r rendered.
Land(r) == FieldsOf[page[r].text].land_m2
HasLine(m, line) == \E i \in 1..Len(m) : m[i] = line

\* C4: a request runs its gates in the order dedup, fetch, challenge,
\* extract, filter, notify, and stops at the first that fails: its answer
\* tells how far it went, and nothing of a later step exists.  A message is
\* posted only by a request that passed the dedup gate, rendered, met no
\* challenge, found a land area and passed the filter.
C4_GatesInOrder ==
    \A r \in Requests :
        /\ IsPrefix(trace[r], GateOrder)
        /\ Done(r) =>
             Len(trace[r]) =
                 CASE resp[r].status = "dedup_skipped" -> 1
                   [] resp[r].code = 504 -> 2
                   [] resp[r].code = 502 /\ resp[r].detail = "Browser error" -> 2
                   [] resp[r].code = 403 -> 3
                   [] resp[r].status = "no_land_field" -> 4
                   [] resp[r].status = "filtered_out" -> 5
                   [] OTHER -> 6
        /\ Len(trace[r]) < 2 => ~Rendered(r) /\ fetchExc[r] = ""
        /\ Len(trace[r]) < 4 => fields[r] = NoFields
        /\ Len(trace[r]) < 6 => msg[r] = <<>> /\ posts[r] = <<>> /\ answer[r] = -1
        /\ posts[r] # <<>> =>
             /\ Passed(r)
             /\ Rendered(r)
             /\ ~Challenged(r)
             /\ Land(r) # None
             /\ (MIN_LAND_M2 = 0 \/ Val(Land(r)) >= MIN_LAND_M2)

\* C4 happens: a request was filtered out, and another posted its message.
C4_Witness ==
    \E r \in Requests, q \in Requests :
        /\ Done(r) /\ resp[r].status = "filtered_out" /\ Len(trace[r]) = 5
        /\ Done(q) /\ posts[q] # <<>> /\ MIN_LAND_M2 = 300

\* C5: a request that failed answers with a failure, never with a 2xx code
\* or the status posted: 504 when fetch_page_text raised a timeout, 502 when
\* it raised anything else, 403 on a challenge, 502 when the delivery failed
\* (the endpoint did not answer 200, or the credentials are missing).
C5_FailuresAreVisible ==
    \A r \in Requests :
        Done(r) =>
            /\ fetchExc[r] = "PwTimeoutError" => resp[r].code = 504
            /\ fetchExc[r] = "Error" => resp[r].code = 502
            /\ (Rendered(r) /\ Challenged(r)) => resp[r].code = 403
            /\ answer[r] \notin {-1, 200} => resp[r].code = 502
            /\ (msg[r] # <<>> /\ posts[r] = <<>>) => resp[r].code = 502
            /\ ( \/ fetchExc[r] # ""
                 \/ (Rendered(r) /\ Challenged(r))
                 \/ answer[r] \notin {-1, 200}
                 \/ (msg[r] # <<>> /\ posts[r] = <<>>) )
               => (resp[r].code \notin 200..299 /\ resp[r].status # "posted")

\* C5 happens: one request timed out in the render and another failed in the
\* delivery.
C5_Witness ==
    \E r \in Requests, q \in Requests :
        /\ Done(r) /\ fetchExc[r] = "PwTimeoutError" /\ resp[r].code = 504
        /\ Done(q) /\ answer[q] = 400 /\ resp[q].code = 502

\* C6: with a threshold T > 0, a request whose land area is below T is
\* answered filtered_out and posts nothing; one whose land area is T or more
\* goes on to notify.
C6_FilterInclusive ==
    \A r \in Requests :
        (MIN_LAND_M2 > 0 /\ Rendered(r) /\ ~Challenged(r) /\ Land(r) # None)
        => IF Val(Land(r)) < MIN_LAND_M2
           THEN /\ Done(r) /\ resp[r] = Returned("filtered_out")
                /\ msg[r] = <<>> /\ posts[r] = <<>>
           ELSE /\ trace[r] = GateOrder
                /\ msg[r] # <<>>
                /\ resp[r].status # "filtered_out"
                /\ (posts[r] # <<>>
                      \/ MissingCredentials(TELEGRAM_BOT_TOKEN, TELEGRAM_CHAT_ID))

\* C6 happens: the land area equals the threshold and the message is posted,
\* while a smaller land area was filtered out.
C6_Witness ==
    \E r \in Requests, q \in Requests :
        /\ MIN_LAND_M2 = 300
        /\ Rendered(r) /\ Land(r) = Some(300) /\ posts[r] # <<>>
        /\ Rendered(q) /\ Land(q) = Some(250) /\ resp[q].status = "filtered_out"

C8_DedupOnlySweeps ==
    [][\A r \in Requests :
          (pc[r] = "idle" /\ Deduped(r)')
          => /\ trace'[r] = <<"dedup">>
             /\ page'[r] = NoPage /\ fields'[r] = NoFields
             /\ msg'[r] = <<>> /\ posts'[r] = <<>>
             /\ markAt'[r] = -1 /\ fetchExc'[r] = "" /\ answer'[r] = -1
             /\ \A k \in DOMAIN seen' : k \in DOMAIN seen /\ seen'[k] = seen[k]
             /\ \A k \in DOMAIN seen \ DOMAIN seen' :
                    now - seen[k] > DEDUP_TTL_SECONDS
             /\ now' = now
             /\ \A q \in Requests \ {r} :
                    /\ pc'[q] = pc[q] /\ page'[q] = page[q]
                    /\ fields'[q] = fields[q] /\ msg'[q] = msg[q]
                    /\ posts'[q] = posts[q] /\ resp'[q] = resp[q]
                    /\ trace'[q] = trace[q]]_vars

\* C8 happens: a request was deduplicated while the request that marked its
\* URL was waiting for the endpoint.
C8_Witness ==
    \E r \in Requests, q \in Requests :
        /\ Deduped(r) /\ Passed(q) /\ url[q] = url[r]
        /\ pc[q] = "sending"

\* C9: a request for a URL not in the store, whose render succeeds without
\* a challenge marker, whose land area is L, with the threshold 0 and a
\* delivery that succeeds, is answered posted, posts exactly one message, and
\* the message holds the line "Terrain: L m²" and the URL.
C9_EndToEnd ==
    \A r \in Requests :
        ( /\ Passed(r) /\ Rendered(r) /\ ~Challenged(r)
          /\ Land(r) # None
          /\ MIN_LAND_M2 = 0
          /\ answer[r] = 200 )
        => /\ Done(r)
           /\ resp[r] = Returned("posted")
           /\ Len(posts[r]) = 1
           /\ HasLine(posts[r][1],
                      "Terrain: " \o ToString(Val(Land(r))) \o " m²")
           /\ HasLine(posts[r][1], url[r])

\* C9 happens: land area 500, threshold 0, the message delivered.
C9_Witness ==
    \E r \in Requests :
        /\ Passed(r) /\ Rendered(r) /\ Land(r) = Some(500)
        /\ MIN_LAND_M2 = 0 /\ answer[r] = 200
        /\ posts[r] = << <<"Nouvelle annonce qualifiee", "Terrain: 500 m²",
                           "Surface: 500 m²", url[r]>> >>

\* The fields of a message, in the order of their lines.
FieldOrder == <<"land_m2", "price_eur", "area_m2">>
\* The line of field k with value v.
FieldLine(k, v) ==
    CASE k = "land_m2" -> "Terrain: " \o ToString(v) \o " m²"
      [] k = "price_eur" -> "Prix: " \o ToString(v) \o " EUR"
      [] k = "area_m2" -> "Surface: " \o ToString(v) \o " m²"
\* The fields of f that are present (0 included), in order.
PresentFields(f) == SelectSeq(FieldOrder, LAMBDA k : f[k] # None)

\* C10: format_message returns the header line, then one line for each
\* field that is present, in the order land, price, area, a field of value 0
\* being present and an absent field giving no line, then the URL.
C10_MessageLines ==
    fmtDone =>
        LET present == PresentFields(fmtFields)
        IN  /\ Len(fmtOut) = Len(present) + 2
            /\ fmtOut[1] = "Nouvelle annonce qualifiee"
            /\ fmtOut[Len(fmtOut)] = fmtUrl
            /\ \A i \in 1..Len(present) :
                   fmtOut[i + 1] = FieldLine(present[i], Val(fmtFields[present[i]]))

\* C10 happens: the land area is 0, the price is absent and the area is 120.
C10_Witness ==
    /\ fmtDone
    /\ fmtFields = [land_m2 |-> Some(0), price_eur |-> None, area_m2 |-> Some(120)]
    /\ fmtOut = <<"Nouvelle annonce qualifiee", "Terrain: 0 m²",
                  "Surface: 120 m²", fmtUrl>>

\* ---------------------------------------------------------------- C11
\* What land rule k gives on text t: the number of its match, None when the
\* rule does not match or its match holds no number.
RuleValue(t, k) ==
    LET m == LandSearch(t, land_patterns[k])
    IN  IF m = << >> THEN None ELSE clean_int(m)

\* The value of the first rule, in the order of the rules, that gives a
\* number; None when no rule gives one.
FirstRuleValue(t) ==
    LET ks == {k \in 1..Len(land_patterns) : RuleValue(t, k) # None}
    IN  IF ks = {} THEN None ELSE RuleValue(t, Min(ks))

\* C11: extract_fields tries the land rules in their fixed order and returns
\* as land area the value of the first rule whose match yields a number;
\* when no rule yields one the land area is None and the request ends with
\* no_land_field.
C11_FirstRuleWins ==
    pureDone =>
        /\ exFields.land_m2 = FirstRuleValue(exText)
        /\ (\A k \in 1..Len(land_patterns) : RuleValue(exText, k) = None)
               => (exFields.land_m2 = None /\ exStatus = "no_land_field")

\* ---------------------------------------------------------------- C12
\* The number a text of NumberTexts writes: its only digits are those of N.
WrittenValue(t) == ParseInt(SelectSeq(t, IsDigit))

\* C12: for a text made of a land label, a separator run without digits and
\* a positive integer N, extract_fields returns land_m2 = N, whether N is
\* written as plain digits or with thousands separators (comma, period,
\* space, non-breaking space); a text with no digits gives land_m2 = None.
C12_NumberAsWritten ==
    pureDone =>
        /\ exText \in NumberTexts
               => exFields.land_m2 = Some(WrittenValue(exText))
        /\ exText \in DigitlessTexts => exFields.land_m2 = None

\* ---------------------------------------------------------------- C13
\* C13: looks_like_challenge returns true for every markup that contains one
\* of the fixed markers in any letter case, and false for every markup that
\* contains none of them, the empty and the missing markup included.
C13_MarkersAnyCase ==
    pureDone =>
        /\ chHtml \in MarkedMarkups => chResult
        /\ chHtml \in UnmarkedMarkups => ~chResult

\* A marker in mixed case inside a tag has been classified as a challenge.
C13_Witness ==
    /\ pureDone
    /\ chResult
    /\ chHtml \in MarkedMarkups
    /\ chHtml # LowerStr(chHtml)
    /\ Len(chHtml) > Len(ChallengeMarkers[4])

\* ---------------------------------------------------------------- C14
\* Every entry of the store is the mark of a first sighting: its key is the
\* fingerprint of the URL of a request that passed the gate and its time is
\* the time that request wrote.
EntriesAreFirstSightings ==
    \A k \in DOMAIN seen :
        \E r \in Requests :
            Passed(r) /\ dedup_key(url[r]) = k /\ seen[k] = markAt[r]

\* C14: the store holds at most one entry per fingerprint, the entry of a
\* URL that passed the gate, and the time of an entry is written once: no
\* step changes it while the entry is live (only an entry older than the TTL
\* is replaced, by a new first sighting), and a deduplicated resubmission
\* leaves it as it is, so the window is counted from the first sighting.
C14_WriteOnce ==
    /\ [](/\ EntriesAreFirstSightings
          /\ Cardinality(DOMAIN seen)
                 <= Cardinality({url[r] : r \in {q \in Requests : Passed(q)}}))
    /\ [][/\ \A k \in DOMAIN seen \cap DOMAIN seen' :
                 seen'[k] # seen[k] => Expired(now, seen[k])
          /\ \A r \in Requests :
                 (~Deduped(r) /\ Deduped(r)')
                 => /\ dedup_key(url'[r]) \in DOMAIN seen
                    /\ seen'[dedup_key(url'[r])] = seen[dedup_key(url'[r])]
                    /\ seen[dedup_key(url'[r])] + DEDUP_TTL_SECONDS >= now]_vars

\* C14 happens: a resubmission was deduplicated later than the first
\* sighting, and the entry still holds the time of the first sighting.
C14_Witness ==
    \E r \in Requests, q \in Requests :
        /\ Passed(q) /\ Deduped(r) /\ url[q] = url[r]
        /\ dedup_key(url[q]) \in DOMAIN seen
        /\ seen[dedup_key(url[q])] = markAt[q]
        /\ now > markAt[q]

\* ---------------------------------------------------------------- C15
\* C15: the sweep at the start of a webhook request removes exactly the
\* entries whose age is strictly greater than the TTL and leaves every other
\* entry as it is (of the removed ones only the request's own fingerprint
\* comes back, as its new mark); an entry of age TTL exactly is kept, so a
\* resubmission at first sighting plus TTL is deduplicated.
C15_SweepStrict ==
    [][\A r \in Requests :
          (pc[r] = "idle" /\ pc'[r] # "idle")
          => LET key == dedup_key(url'[r])
             IN  /\ gcAt'[r] = now
                 /\ \A k \in DOMAIN seen :
                        IF now - seen[k] > DEDUP_TTL_SECONDS
                        THEN k \in DOMAIN seen'
                                 => /\ k = key
                                    /\ Passed(r)'
                                    /\ seen'[k] = markAt'[r]
                        ELSE k \in DOMAIN seen' /\ seen'[k] = seen[k]
                 /\ (key \in DOMAIN seen
                         /\ now - seen[key] = DEDUP_TTL_SECONDS)
                        => Deduped(r)']_vars

\* C15 happens: a resubmission arrived exactly TTL after the first sighting
\* of its URL and was deduplicated.
C15_Witness ==
    \E r \in Requests, q \in Requests :
        /\ Passed(q) /\ Deduped(r) /\ url[q] = url[r]
        /\ gcAt[r] = markAt[q] + DEDUP_TTL_SECONDS

\* ---------------------------------------------------------------- C16
\* How many times x occurs in the sequence s.
Count(s, x) == Cardinality({i \in 1..Len(s) : s[i] = x})

\* C16: the pipeline never retries.  Within one request the render is
\* entered at most once (from the gate only, and a request never goes back
\* before the gate) and the message is posted at most once; a request that
\* has its outcome, failures included, does nothing more.
C16_NoRetry ==
    /\ [](\A r \in Requests :
             /\ Count(trace[r], "fetch") <= 1
             /\ Len(posts[r]) <= 1
             /\ (pc[r] = "sending" => Len(posts[r]) = 1))
    /\ [][\A r \in Requests :
             /\ pc[r] # "idle" => pc'[r] # "idle"
             /\ (pc'[r] = "fetching" /\ pc[r] # "fetching") => pc[r] = "idle"
             /\ (pc'[r] = "sending" /\ pc[r] # "sending") => pc[r] = "fetching"
             /\ Len(posts'[r]) > Len(posts[r]) => pc[r] = "fetching"
             /\ Done(r) => /\ Done(r)'
                           /\ resp'[r] = resp[r] /\ posts'[r] = posts[r]
                           /\ trace'[r] = trace[r] /\ page'[r] = page[r]]_vars

\* C16 happens: both requests failed, one in the render and one in the
\* delivery after its only post, and the clock went on after the failures.
C16_Witness ==
    \E r \in Requests, q \in Requests :
        /\ Done(r) /\ fetchExc[r] = "Error" /\ resp[r].code = 502
        /\ Count(trace[r], "fetch") = 1 /\ posts[r] = << >>
        /\ Done(q) /\ answer[q] = 0 /\ resp[q].code = 502
        /\ Len(posts[q]) = 1
        /\ now = MaxTime

\* ---------------------------------------------------------------- C17
\* The outcomes of a request.
Terminal(r) ==
    /\ Done(r)
    /\ \/ resp[r].status \in
              {"dedup_skipped", "no_land_field", "filtered_out", "posted"}
       \/ resp[r].code \in {504, 502, 403}

\* C17: every webhook request that has arrived eventually reaches a terminal
\* outcome (dedup_skipped, no_land_field, filtered_out, posted, or a 504,
\* 502 or 403 failure): with the render and the delivery bounded by their
\* timeouts, no request stays in the fetch or in the notify step for ever.
C17_EveryRequestEnds ==
    \A r \in Requests :
        /\ (pc[r] # "idle") ~> Terminal(r)
        /\ [](Done(r) => Terminal(r))

\* C17 happens: every request has its outcome, one after its render and its
\* delivery, one after a render that was blocked.
C17_Witness ==
    /\ \A r \in Requests : Terminal(r)
    /\ \E r \in Requests : resp[r].status = "posted" /\ answer[r] = 200
    /\ \E q \in Requests : resp[q].code = 403 /\ Rendered(q)

\* ---------------------------------------------------------------- C18
\* C18: when the bot token or the chat identifier is missing, a request that
\* reaches the notify step fails there with a 502, before any call to the
\* endpoint: nothing is posted, no request waits for the endpoint, none is
\* answered posted, and a request that passed every gate has the 502.
C18_MissingCredentialsFail ==
    (TELEGRAM_BOT_TOKEN = "" \/ TELEGRAM_CHAT_ID = "")
    => \A r \in Requests :
           /\ posts[r] = << >>
           /\ pc[r] # "sending"
           /\ answer[r] = -1
           /\ resp[r].status # "posted"
           /\ Count(trace[r], "notify") = 1
                  => /\ Done(r)
                     /\ resp[r] = HTTPException(502, "Telegram send failed")
                     /\ msg[r] # << >>
           /\ (/\ Rendered(r) /\ ~Challenged(r)
               /\ Land(r) # None
               /\ (MIN_LAND_M2 = 0 \/ Val(Land(r)) >= MIN_LAND_M2))
                  => Count(trace[r], "notify") = 1

\* C18 happens: with a token and no chat identifier a request passed every
\* gate and was answered 502 without a post.
C18_Witness ==
    \E r \in Requests :
        /\ TELEGRAM_BOT_TOKEN # "" /\ TELEGRAM_CHAT_ID = ""
        /\ Done(r) /\ Count(trace[r], "notify") = 1
        /\ resp[r].code = 502 /\ posts[r] = << >>
        /\ Land(r) = Some(500) /\ MIN_LAND_M2 = 300

\* ---------------------------------------------------------------- C19
\* What the pipeline holds of request q.
RequestState(q) ==
    <<pc[q], url[q], page[q], fields[q], msg[q], resp[q], trace[q], posts[q],
      markAt[q], fetchExc[q], answer[q], gcAt[q]>>

\* C19: a step of a request for URL U, whatever its outcome, leaves the
\* entries of the other URLs that are not expired as they are: the only
\* entry it adds is the fingerprint of U, the only entries it removes are
\* expired, after its gate it does not touch the store at all, and it
\* changes nothing of the other requests.
C19_OtherUrlsUntouched ==
    [][\A r \in Requests :
          pc'[r] # pc[r]
          => LET key == dedup_key(url'[r])
             IN  /\ \A k \in DOMAIN seen \ {key} :
                        now - seen[k] <= DEDUP_TTL_SECONDS
                        => k \in DOMAIN seen' /\ seen'[k] = seen[k]
                 /\ DOMAIN seen' \ DOMAIN seen \subseteq {key}
                 /\ \A k \in DOMAIN seen \ DOMAIN seen' :
                        now - seen[k] > DEDUP_TTL_SECONDS
                 /\ pc[r] # "idle" => seen' = seen
                 /\ \A q \in Requests \ {r} :
                        RequestState(q)' = RequestState(q)]_vars

\* C19 happens: a request for one URL failed after the first sighting of
\* another URL, whose entry is in the store with the time of its mark.
C19_Witness ==
    \E r \in Requests, q \in Requests :
        /\ url[r] # url[q] /\ Passed(q) /\ Passed(r)
        /\ markAt[q] <= markAt[r]
        /\ Done(r) /\ resp[r].code \in {502, 504}
        /\ dedup_key(url[q]) \in DOMAIN seen
        /\ seen[dedup_key(url[q])] = markAt[q]
        /\ dedup_key(url[r]) \in DOMAIN seen

====
